---- MODULE Spec2Model ----
(***************************************************************************)
(* The DQN training loop of src/main.py as a state machine.                *)
(*                                                                         *)
(* main() drives episodes against the racing environment: it fills a      *)
(* frame buffer, asks the agent for an action, steps the environment,     *)
(* stores the transition, trains, advances epsilon and periodically       *)
(* copies the live network into the target network; after each episode it *)
(* raises the no-reward timeout and periodically writes a checkpoint.     *)
(*                                                                         *)
(* The agent (module dqn) and the environment (gym) are collaborators:    *)
(* each call to them is recorded in `calls`, and the values they return   *)
(* are chosen from small sets.  Plotting, rendering, timing and the       *)
(* running total_reward read by the episode summary do not influence the  *)
(* control flow and are left out.                                         *)
(***************************************************************************)
EXTENDS Integers, Sequences, FiniteSets, TLC

VARIABLES
    cfg,               \* the loaded configuration (main.py:61), immutable
    pc,                \* position of main() in its code
    action_space,      \* main.py:72
    global_counter,    \* main.py:96, the next value itertools.count() yields
    no_reward_timeout, \* main.py:97
    ep,                \* main.py:99
    frame_buffer,      \* main.py:100, deque(maxlen = frame_buffer_size)
    frame_no,          \* frames the environment has produced in this episode
    last_reward,       \* main.py:108
    t_counter,         \* main.py:113, the per-episode count()
    t,                 \* main.py:113
    global_t,          \* main.py:113
    state,             \* main.py:123 / 152 (Unbound until first assigned)
    action,            \* main.py:126
    q_value,           \* main.py:126, q_value[action]
    q_step,            \* global_t of the iteration that computed q_value
    control,           \* main.py:128, action_space[action]
    reward,            \* main.py:132, after clipping
    done,              \* main.py:128
    next_state,        \* main.py:142
    error,             \* main.py:145 / 149
    calls,             \* collaborator calls made by the current iteration
    exit,              \* how the last iteration left the loop body
    last_remember,     \* the latest dqn.remember call and the td_error call feeding it
    terminal_stored,   \* terminal transitions stored in the current episode
    pos_steps,         \* in-episode indices whose clipped reward was > 0
    acted,             \* the agent has selected an action in this episode
    n_iters,           \* loop iterations started so far, over all episodes
    n_get_action,      \* actions selected and played so far
    n_step_epsilon,    \* dqn.step_epsilon calls so far
    saved,             \* dqn.save calls so far: <<episode, file name>>
    finished,          \* episodes whose end-of-episode code has run
    timeout_before     \* no_reward_timeout as the previous episode had it

vars == <<cfg, pc, action_space, global_counter, no_reward_timeout, ep,
          frame_buffer, frame_no, last_reward, t_counter, t, global_t, state,
          action, q_value, q_step, control, reward, done, next_state, error,
          calls, exit, last_remember, terminal_stored, pos_steps,
          acted, n_iters, n_get_action, n_step_epsilon, saved, finished, timeout_before>>

-----------------------------------------------------------------------------
(* Bounds of the model *)

MaxSteps == 5             \* loop iterations explored, over all episodes
NumEpisodes == 3          \* cfg["num_episodes"]
MaxFrameBufferSize == 3   \* cfg["frame_buffer_size"] ranges over 1..this
MaxLevels == 2            \* levels per control axis in SpecActions

Intervals == {2, 3}       \* cfg["target_update_interval"]
Timeouts == {0, 2}        \* cfg["no_reward_timeout"]
TimeoutIncrs == {0, 1}    \* cfg["no_reward_incr"]
TimeoutMaxes == {1, 2}    \* cfg["no_reward_max"]
SaveEverys == {1, 2}      \* cfg["save_every"]
RawRewards == -2 .. 2     \* rewards the environment hands out
QValues == {-1, 1}        \* Q-values the network reports
BootValues == {0, 1}      \* discounted bootstrap terms the target network reports
LevelValues == {-1, 1}    \* control levels in SpecActions

-----------------------------------------------------------------------------
(* Values *)

None == << >>      \* Python's None, where a state is expected
Unbound == << >>   \* a local variable that has not been assigned yet

Min(a, b) == IF a <= b THEN a ELSE b
Max(a, b) == IF a >= b THEN a ELSE b
Abs(x) == IF x < 0 THEN -x ELSE x

\* np.clip(reward, -1, 1)
Clip(x) == Max(-1, Min(1, x))

\* the frame preprocess() makes of the n-th screen of episode e
Frame(e, n) == [ep |-> e, n |-> n]

\* deque.append on a deque with maxlen: the oldest entry falls out when full
DequeAppend(dq, x, maxlen) ==
    IF Len(dq) < maxlen THEN Append(dq, x)
    ELSE IF maxlen = 0 THEN << >>
    ELSE Append(Tail(dq), x)

\* torch.cat(tuple(frame_buffer), dim=0): the frames, oldest first
Cat(dq) == dq

-----------------------------------------------------------------------------
(* make_action_space, computed loop by loop as the code does *)

\* a faulty variant: gas and brake change places in the stored triple
RECURSIVE BrakeLoopSwapped(_, _, _, _, _)
BrakeLoopSwapped(levels, i, j, k, actions) ==
    IF k > Len(levels.brake) THEN actions
    ELSE BrakeLoopSwapped(levels, i, j, k + 1,
                   Append(actions, <<levels.turn[i], levels.brake[k], levels.gas[j]>>))

\* main.py:48-55
RECURSIVE BrakeLoop(_, _, _, _, _)
BrakeLoop(levels, i, j, k, actions) ==
    IF k > Len(levels.brake) THEN actions
    ELSE BrakeLoop(levels, i, j, k + 1,
                   Append(actions, <<levels.turn[i], levels.gas[j], levels.brake[k]>>))

\* main.py:47
RECURSIVE GasLoop(_, _, _, _)
GasLoop(levels, i, j, actions) ==
    IF j > Len(levels.gas) THEN actions
    ELSE GasLoop(levels, i, j + 1, BrakeLoop(levels, i, j, 1, actions))

\* main.py:46
RECURSIVE TurnLoop(_, _, _)
TurnLoop(levels, i, actions) ==
    IF i > Len(levels.turn) THEN actions
    ELSE TurnLoop(levels, i + 1, GasLoop(levels, i, 1, actions))

\* main.py:43-57
make_action_space(action_levels) == TurnLoop(action_levels, 1, << >>)

-----------------------------------------------------------------------------
(* The pieces of main() that decide control flow *)

\* main.py:115 and 120
BufferShort == Len(frame_buffer) < cfg.frame_buffer_size

\* a faulty variant: only the environment ends an episode
EpisodeOverDoneOnly == done

\* main.py:144
EpisodeOver == done \/ (t - last_reward) > no_reward_timeout

\* a faulty variant: the in-episode index decides
TargetDueLocalStep == t % cfg.target_update_interval = 0

\* main.py:167
TargetDue == global_t % cfg.target_update_interval = 0

\* a faulty variant: the cap is forgotten
NextTimeoutUncapped == no_reward_timeout + cfg.no_reward_incr

\* main.py:180-182
NextTimeout == Min(no_reward_timeout + cfg.no_reward_incr, cfg.no_reward_max)

\* a faulty variant: episodes counted from 1
SaveDueOffByOne == (ep + 1) % cfg.save_every = 0

\* main.py:184
SaveDue == ep % cfg.save_every = 0

\* str(n) for n >= 0, one character per digit
DigitChar == <<"0", "1", "2", "3", "4", "5", "6", "7", "8", "9">>

RECURSIVE Str(_)
Str(n) == IF n < 10 THEN <<DigitChar[n + 1]>>
          ELSE Append(Str(n \div 10), DigitChar[(n % 10) + 1])

\* main.py:185, path.join(cfg["save_dir"], f"{ep}.pt")
FileName(e) == <<cfg.save_dir, "/">> \o Str(e) \o <<".", "p", "t">>

\* dqn.td_error(q, reward, next_state): |q - (reward + bootstrap)|, where the
\* bootstrap term is what the target network reports for next_state
td_error(q, r, boot) == Abs(q - (r + boot))

-----------------------------------------------------------------------------
(* Configurations *)

DefaultActions == [turn |-> <<-1, 1>>, gas |-> <<1>>, brake |-> <<0>>]

Configs ==
    [frame_buffer_size : 1 .. MaxFrameBufferSize,
     target_update_interval : Intervals,
     no_reward_timeout : Timeouts,
     no_reward_incr : TimeoutIncrs,
     no_reward_max : TimeoutMaxes,
     save_every : SaveEverys,
     num_episodes : {NumEpisodes},
     save_dir : {"models"},
     actions : {DefaultActions}]

LevelLists == UNION {[1 .. n -> LevelValues] : n \in 0 .. MaxLevels}

ActionConfigs ==
    [frame_buffer_size : {2},
     target_update_interval : {2},
     no_reward_timeout : {1},
     no_reward_incr : {1},
     no_reward_max : {2},
     save_every : {1},
     num_episodes : {1},
     save_dir : {"models"},
     actions : [turn : LevelLists, gas : LevelLists, brake : LevelLists]]

Start ==
    /\ pc = "setup"
    /\ action_space = << >>
    /\ global_counter = 0
    /\ no_reward_timeout = 0
    /\ ep = 0
    /\ frame_buffer = << >>
    /\ frame_no = 0
    /\ last_reward = 0
    /\ t_counter = 0
    /\ t = -1
    /\ global_t = -1
    /\ state = Unbound
    /\ action = 0
    /\ q_value = 0
    /\ q_step = -1
    /\ control = << >>
    /\ reward = 0
    /\ done = FALSE
    /\ next_state = Unbound
    /\ error = 0
    /\ calls = << >>
    /\ exit = "none"
    /\ last_remember = << >>
    /\ terminal_stored = 0
    /\ pos_steps = {}
    /\ acted = FALSE
    /\ n_iters = 0
    /\ n_get_action = 0
    /\ n_step_epsilon = 0
    /\ saved = << >>
    /\ finished = 0
    /\ timeout_before = 0

Init == cfg \in Configs /\ Start

InitActions == cfg \in ActionConfigs /\ Start

-----------------------------------------------------------------------------
(* Actions *)

\* main.py:61-97
Setup ==
    /\ pc = "setup"
    /\ action_space' = make_action_space(cfg.actions)
    /\ global_counter' = 0
    /\ no_reward_timeout' = cfg.no_reward_timeout
    /\ timeout_before' = cfg.no_reward_timeout
    /\ ep' = 0
    /\ pc' = "episode"
    /\ UNCHANGED <<cfg, frame_buffer, frame_no, last_reward, t_counter, t,
                   global_t, state, action, q_value, q_step, control, reward,
                   done, next_state, error, calls, exit, last_remember, terminal_stored, pos_steps, acted, n_iters,
                   n_get_action, n_step_epsilon, saved, finished>>

\* main.py:99-111, one more episode: env.reset() and the per-episode locals
EpisodeStart ==
    /\ pc = "episode"
    /\ ep < cfg.num_episodes
    /\ frame_buffer' = DequeAppend(<< >>, Frame(ep, 0), cfg.frame_buffer_size)
    /\ frame_no' = 1
    /\ last_reward' = 0
    /\ t_counter' = 0
    /\ calls' = << >>
    /\ exit' = "none"
    /\ terminal_stored' = 0
    /\ pos_steps' = {}
    /\ acted' = FALSE
    /\ pc' = "loop"
    /\ UNCHANGED <<cfg, action_space, global_counter, no_reward_timeout, ep, t,
                   global_t, state, action, q_value, q_step, control, reward,
                   done, next_state, error, last_remember, n_iters,
                   n_get_action, n_step_epsilon, saved, finished, timeout_before>>

\* main.py:113-115, zip(count(), global_counter) yields the next pair
LoopHead ==
    /\ pc = "loop"
    /\ global_counter < MaxSteps
    /\ t' = t_counter
    /\ t_counter' = t_counter + 1
    /\ global_t' = global_counter
    /\ global_counter' = global_counter + 1
    /\ n_iters' = n_iters + 1
    /\ calls' = << >>
    /\ exit' = "none"
    /\ pc' = IF BufferShort THEN "fill" ELSE "get_action"
    /\ UNCHANGED <<cfg, action_space, no_reward_timeout, ep, frame_buffer,
                   frame_no, last_reward, state, action, q_value, q_step,
                   control, reward, done, next_state, error, last_remember, terminal_stored, pos_steps, acted, n_get_action,
                   n_step_epsilon, saved, finished, timeout_before>>

\* main.py:116-123, a random step to fill the frame buffer
FillFrame ==
    /\ pc = "fill"
    /\ frame_buffer' = DequeAppend(frame_buffer, Frame(ep, frame_no),
                                   cfg.frame_buffer_size)
    /\ frame_no' = frame_no + 1
    /\ calls' = Append(calls, "env.sample_step")
    /\ IF Len(frame_buffer') < cfg.frame_buffer_size
       THEN /\ exit' = "continue"
            /\ pc' = "loop"
            /\ UNCHANGED state
       ELSE /\ state' = Cat(frame_buffer')
            /\ pc' = "get_action"
            /\ UNCHANGED exit
    /\ UNCHANGED <<cfg, action_space, global_counter, no_reward_timeout, ep,
                   last_reward, t_counter, t, global_t, action, q_value,
                   q_step, control, reward, done, next_state, error,
                   last_remember, terminal_stored, pos_steps, acted,
                   n_iters, n_get_action, n_step_epsilon, saved, finished, timeout_before>>

\* main.py:126, reading `state` before any assignment raises UnboundLocalError
GetActionUnbound ==
    /\ pc = "get_action"
    /\ state = Unbound
    /\ pc' = "crashed"
    /\ UNCHANGED <<cfg, action_space, global_counter, no_reward_timeout, ep,
                   frame_buffer, frame_no, last_reward, t_counter, t, global_t,
                   state, action, q_value, q_step, control, reward, done,
                   next_state, error, calls, exit, last_remember,
                   terminal_stored, pos_steps, acted, n_iters, n_get_action,
                   n_step_epsilon, saved, finished, timeout_before>>

\* main.py:126, action, q_value = dqn.get_action(state)
GetAction ==
    /\ pc = "get_action"
    /\ state # Unbound
    /\ \E a \in 0 .. Len(action_space) - 1, q \in QValues :
          /\ action' = a
          /\ q_value' = q
    /\ q_step' = global_t
    /\ calls' = Append(calls, "get_action")
    /\ pc' = "env_step"
    /\ UNCHANGED <<cfg, action_space, global_counter, no_reward_timeout, ep,
                   frame_buffer, frame_no, last_reward, t_counter, t, global_t,
                   state, control, reward, done, next_state, error, exit,
                   last_remember, terminal_stored, pos_steps, acted,
                   n_iters, n_get_action, n_step_epsilon, saved, finished, timeout_before>>

\* main.py:128-142, play the action, clip the reward, push the next frame
EnvStep ==
    /\ pc = "env_step"
    /\ control' = action_space[action + 1]
    /\ \E raw \in RawRewards, d \in BOOLEAN :
          /\ reward' = Clip(raw)
          /\ done' = d
    /\ last_reward' = IF reward' > 0 THEN t ELSE last_reward
    /\ pos_steps' = IF reward' > 0 THEN pos_steps \cup {t} ELSE pos_steps
    /\ frame_buffer' = DequeAppend(frame_buffer, Frame(ep, frame_no),
                                   cfg.frame_buffer_size)
    /\ frame_no' = frame_no + 1
    /\ next_state' = Cat(frame_buffer')
    /\ acted' = TRUE
    /\ n_get_action' = n_get_action + 1
    /\ calls' = Append(calls, "env.step")
    /\ pc' = "remember"
    /\ UNCHANGED <<cfg, action_space, global_counter, no_reward_timeout, ep,
                   t_counter, t, global_t, state, action, q_value, q_step,
                   error, exit, last_remember, terminal_stored,
                   n_iters, n_step_epsilon, saved, finished, timeout_before>>

\* main.py:144-152, store the transition; a terminal one leaves the loop
Remember ==
    /\ pc = "remember"
    /\ IF EpisodeOver
       THEN /\ error' = q_value - reward
            /\ last_remember' = <<[ep |-> ep, step |-> global_t,
                                   state |-> state, action |-> action,
                                   reward |-> reward, next_state |-> None,
                                   error |-> error', td_error |-> << >>]>>
            /\ terminal_stored' = terminal_stored + 1
            /\ exit' = "break"
            /\ pc' = "episode_end"
            /\ UNCHANGED state
       ELSE /\ \E boot \in BootValues : error' = td_error(q_value, reward, boot)
            /\ last_remember' = <<[ep |-> ep, step |-> global_t,
                                   state |-> state, action |-> action,
                                   reward |-> reward, next_state |-> next_state,
                                   error |-> error',
                                   td_error |-> <<q_value, reward, next_state>>]>>
            /\ state' = next_state
            /\ pc' = "train"
            /\ UNCHANGED <<terminal_stored, exit>>
    /\ calls' = Append(calls, "remember")
    /\ UNCHANGED <<cfg, action_space, global_counter, no_reward_timeout, ep,
                   frame_buffer, frame_no, last_reward, t_counter, t, global_t,
                   action, q_value, q_step, control, reward, done, next_state,
                   pos_steps, acted, n_iters, n_get_action, n_step_epsilon,
                   saved, finished, timeout_before>>

\* main.py:154, loss = dqn.train(cfg["batch_size"])
Train ==
    /\ pc = "train"
    /\ calls' = Append(calls, "train")
    /\ pc' = "step_epsilon"
    /\ UNCHANGED <<cfg, action_space, global_counter, no_reward_timeout, ep,
                   frame_buffer, frame_no, last_reward, t_counter, t, global_t,
                   state, action, q_value, q_step, control, reward, done,
                   next_state, error, exit, last_remember,
                   terminal_stored, pos_steps, acted, n_iters, n_get_action,
                   n_step_epsilon, saved, finished, timeout_before>>

\* main.py:155, dqn.step_epsilon()
StepEpsilon ==
    /\ pc = "step_epsilon"
    /\ n_step_epsilon' = n_step_epsilon + 1
    /\ calls' = Append(calls, "step_epsilon")
    /\ pc' = "target"
    /\ UNCHANGED <<cfg, action_space, global_counter, no_reward_timeout, ep,
                   frame_buffer, frame_no, last_reward, t_counter, t, global_t,
                   state, action, q_value, q_step, control, reward, done,
                   next_state, error, exit, last_remember,
                   terminal_stored, pos_steps, acted, n_iters, n_get_action,
                   saved, finished, timeout_before>>

\* main.py:167-169, the end of the loop body
UpdateTarget ==
    /\ pc = "target"
    /\ calls' = IF TargetDue THEN Append(calls, "update_target") ELSE calls
    /\ exit' = "end"
    /\ pc' = "loop"
    /\ UNCHANGED <<cfg, action_space, global_counter, no_reward_timeout, ep,
                   frame_buffer, frame_no, last_reward, t_counter, t, global_t,
                   state, action, q_value, q_step, control, reward, done,
                   next_state, error, last_remember, terminal_stored,
                   pos_steps, acted, n_iters, n_get_action, n_step_epsilon,
                   saved, finished, timeout_before>>

\* main.py:171-185, after the loop: raise the timeout, save when due
EpisodeEnd ==
    /\ pc = "episode_end"
    /\ no_reward_timeout' = NextTimeout
    /\ timeout_before' = no_reward_timeout
    /\ saved' = IF SaveDue THEN Append(saved, <<ep, FileName(ep)>>) ELSE saved
    /\ finished' = finished + 1
    /\ ep' = ep + 1
    /\ pc' = "episode"
    /\ UNCHANGED <<cfg, action_space, global_counter, frame_buffer, frame_no,
                   last_reward, t_counter, t, global_t, state, action, q_value,
                   q_step, control, reward, done, next_state, error, calls,
                   exit, last_remember, terminal_stored, pos_steps,
                   acted, n_iters, n_get_action, n_step_epsilon>>

\* main.py:187, env.close() once range(num_episodes) is exhausted
EnvClose ==
    /\ pc = "episode"
    /\ ep >= cfg.num_episodes
    /\ pc' = "closed"
    /\ UNCHANGED <<cfg, action_space, global_counter, no_reward_timeout, ep,
                   frame_buffer, frame_no, last_reward, t_counter, t, global_t,
                   state, action, q_value, q_step, control, reward, done,
                   next_state, error, calls, exit, last_remember,
                   terminal_stored, pos_steps, acted, n_iters, n_get_action,
                   n_step_epsilon, saved, finished, timeout_before>>

\* main.py:128, action_space[action] for an index the agent can return
Lookup ==
    /\ pc = "episode"
    /\ \E a \in 0 .. Len(action_space) - 1 :
          /\ action' = a
          /\ control' = action_space[a + 1]
    /\ pc' = "looked_up"
    /\ UNCHANGED <<cfg, action_space, global_counter, no_reward_timeout, ep,
                   frame_buffer, frame_no, last_reward, t_counter, t, global_t,
                   state, q_value, q_step, reward, done, next_state, error,
                   calls, exit, last_remember, terminal_stored,
                   pos_steps, acted, n_iters, n_get_action, n_step_epsilon,
                   saved, finished, timeout_before>>

Next ==
    \/ Setup
    \/ EpisodeStart
    \/ LoopHead
    \/ FillFrame
    \/ GetActionUnbound
    \/ GetAction
    \/ EnvStep
    \/ Remember
    \/ Train
    \/ StepEpsilon
    \/ UpdateTarget
    \/ EpisodeEnd
    \/ EnvClose

Spec == Init /\ [][Next]_vars

NextActions == Setup \/ Lookup

SpecActions == InitActions /\ [][NextActions]_vars

-----------------------------------------------------------------------------
(* Helpers of the properties *)

Called(name) == \E i \in DOMAIN calls : calls[i] = name

Count(name) == Cardinality({i \in DOMAIN calls : calls[i] = name})

\* the place of a call in the data flow of one iteration
Rank(c) ==
    CASE c = "get_action" -> 1
      [] c = "env.step" -> 2
      [] c = "remember" -> 3
      [] c = "train" -> 4
      [] c = "step_epsilon" -> 5
      [] c = "update_target" -> 6
      [] OTHER -> 0

IterationOver == exit # "none"

InEpisode == pc \in {"loop", "fill", "get_action", "env_step", "remember",
                     "train", "step_epsilon", "target", "episode_end"}

\* the value a string of decimal digits denotes
DigitValue(c) == CHOOSE d \in 0 .. 9 : DigitChar[d + 1] = c

RECURSIVE ParseInt(_)
ParseInt(digits) ==
    IF Len(digits) = 0 THEN 0
    ELSE 10 * ParseInt(SubSeq(digits, 1, Len(digits) - 1))
         + DigitValue(digits[Len(digits)])

IsDigits(sq) == Len(sq) >= 1 /\ \A i \in DOMAIN sq : sq[i] \in {DigitChar[d] : d \in 1 .. 10}

-----------------------------------------------------------------------------
(* C1: every loop iteration whose global index is a multiple of
   target_update_interval calls update_target before it ends, wherever in
   an episode it falls. *)
C1_UpdateEveryKSteps ==
    (IterationOver /\ global_t % cfg.target_update_interval = 0)
        => Called("update_target")

(* C2: update_target is called only in an iteration whose global index is a
   multiple of target_update_interval, and at most once in it; the global
   index grows by exactly one per loop iteration over all episodes, never
   reset and never skipping a value. *)
C2_TargetFrozenBetweenUpdates ==
    /\ Called("update_target") => global_t % cfg.target_update_interval = 0
    /\ Count("update_target") <= 1
    /\ global_t = n_iters - 1
    /\ global_counter = n_iters

C2_Witness ==
    /\ ep >= 1
    /\ t >= 1
    /\ exit = "end"
    /\ Called("update_target")

(* C3: remember gets next_state None exactly when the step ended the episode
   (done, or the no-reward timeout exceeded); a finished episode has stored
   exactly one such transition, and it is the last one it stored; its error
   is q - reward with no bootstrap term, and every other transition's error
   comes from td_error applied to the real next_state. *)
C3_NoneMarksTerminal ==
    /\ pc \in {"train", "step_epsilon", "target"} =>
          /\ last_remember # << >>
          /\ last_remember[1].step = global_t
          /\ last_remember[1].next_state = next_state
          /\ last_remember[1].next_state # None
          /\ last_remember[1].td_error = <<q_value, reward, next_state>>
          /\ ~(done \/ t - last_reward > no_reward_timeout)
    /\ pc = "episode_end" =>
          /\ last_remember # << >>
          /\ last_remember[1].step = global_t
          /\ last_remember[1].next_state = None
          /\ last_remember[1].error = q_value - reward
          /\ last_remember[1].td_error = << >>
          /\ (done \/ t - last_reward > no_reward_timeout)
    /\ pc \in {"loop", "fill", "get_action", "env_step", "remember", "train",
               "step_epsilon", "target"} => terminal_stored = 0
    /\ (pc \in {"episode", "closed"} /\ finished > 0) =>
          /\ terminal_stored = 1
          /\ last_remember[1].next_state = None
          /\ last_remember[1].ep = finished - 1

C3_Witness ==
    /\ pc = "episode_end"
    /\ ~done
    /\ t >= 2
    /\ last_remember[1].next_state = None
    /\ last_remember[1].state # Unbound

(* C4: the error passed to every remember call is non-negative and comes
   from the Q-value computed in the same iteration. *)
C4_ErrorIsMagnitude ==
    last_remember # << >> =>
        /\ last_remember[1].error >= 0
        /\ (pc \in {"train", "episode_end"} => q_step = last_remember[1].step)

(* C5: between iterations, the number of step_epsilon calls equals the number
   of actions the agent has selected and played. *)
C5_EpsilonPerAction ==
    pc \in {"loop", "episode", "closed"} => n_step_epsilon = n_get_action

(* C6: the calls of one iteration follow the order get_action, env.step,
   remember, train, step_epsilon, update_target; train never comes without a
   stored transition before it, and every iteration that stores a transition
   also trains. *)
C6_DataFlowOrder ==
    /\ \A i, j \in DOMAIN calls : i < j => Rank(calls[i]) < Rank(calls[j])
    /\ Called("train") => Called("remember")
    /\ (IterationOver /\ Called("remember")) => Called("train")

(* C7: when episode ep has finished, save has been called for it exactly once
   if ep % save_every = 0 and not at all otherwise, with the file name
   "<ep>.pt" under save_dir; no two saves share a file name. *)
C7_CheckpointPerEpisode ==
    /\ \A e \in 0 .. finished - 1 :
          Cardinality({i \in DOMAIN saved : saved[i][1] = e})
              = IF e % cfg.save_every = 0 THEN 1 ELSE 0
    /\ \A i \in DOMAIN saved :
          LET name == saved[i][2]
              stem == SubSeq(name, 3, Len(name) - 3)
          IN  /\ saved[i][1] \in 0 .. finished - 1
              /\ Len(name) >= 6
              /\ name[1] = cfg.save_dir
              /\ name[2] = "/"
              /\ SubSeq(name, Len(name) - 2, Len(name)) = <<".", "p", "t">>
              /\ IsDigits(stem)
              /\ ParseInt(stem) = saved[i][1]
    /\ \A i, j \in DOMAIN saved : i # j => saved[i][2] # saved[j][2]

C7_Witness ==
    /\ cfg.save_every = 2
    /\ finished = 3
    /\ Len(saved) = 2

(* C8: make_action_space returns the Cartesian product of the level lists:
   |turn| * |gas| * |brake| entries, the triple of indices (i, j, k), counted
   from 0, at index (i * |gas| + j) * |brake| + k; every index the agent can
   choose maps to one of these triples. *)
C8_CartesianProduct ==
    pc # "setup" =>
        LET turn == cfg.actions.turn
            gas == cfg.actions.gas
            brake == cfg.actions.brake
        IN  /\ Len(action_space) = Len(turn) * Len(gas) * Len(brake)
            /\ \A i \in 0 .. Len(turn) - 1, j \in 0 .. Len(gas) - 1,
                  k \in 0 .. Len(brake) - 1 :
                  action_space[((i * Len(gas) + j) * Len(brake) + k) + 1]
                      = <<turn[i + 1], gas[j + 1], brake[k + 1]>>
            /\ pc = "looked_up" =>
                  /\ action \in 0 .. Len(action_space) - 1
                  /\ Len(control) = 3
                  /\ \E i \in DOMAIN turn, j \in DOMAIN gas, k \in DOMAIN brake :
                        control = <<turn[i], gas[j], brake[k]>>

C8_Witness ==
    /\ pc = "looked_up"
    /\ Len(action_space) = 8
    /\ action = 5
    /\ control = <<1, -1, 1>>

(* C9: whenever get_action is about to be called, state is bound and is the
   concatenation, oldest first, of the frame_buffer_size most recent frames
   of the current episode. *)
C9_StateIsCurrentWindow ==
    pc = "get_action" =>
        /\ state # Unbound
        /\ state = [i \in 1 .. cfg.frame_buffer_size |->
                       Frame(ep, frame_no - cfg.frame_buffer_size + i - 1)]

(* C10: last_reward is the in-episode index of the latest agent step with
   clipped reward > 0 (0 if none); an agent step at index t with
   t - last_reward > no_reward_timeout ends the episode, so no action is
   selected after it; the timeout in force during episode n is
   min(initial + n * no_reward_incr, no_reward_max) whenever
   initial <= no_reward_max, so it never decreases from one episode to the
   next, and it is at most no_reward_max from episode 1 on. *)
C10_NoRewardTimeout ==
    /\ InEpisode =>
          /\ last_reward \in pos_steps \cup {0}
          /\ \A s \in pos_steps : s <= last_reward
    /\ pc \in {"train", "step_epsilon", "target"} =>
          t - last_reward <= no_reward_timeout
    /\ (pc \in {"loop", "get_action"} /\ acted) =>
          (IF pc = "loop" THEN t ELSE t - 1) - last_reward <= no_reward_timeout
    /\ (pc = "episode_end" /\ ~done) => t - last_reward > no_reward_timeout
    /\ (InEpisode /\ cfg.no_reward_timeout <= cfg.no_reward_max) =>
          no_reward_timeout
              = Min(cfg.no_reward_timeout + ep * cfg.no_reward_incr,
                    cfg.no_reward_max)
    /\ (pc # "setup" /\ cfg.no_reward_timeout <= cfg.no_reward_max) =>
          timeout_before <= no_reward_timeout
    /\ (InEpisode /\ ep >= 1) => no_reward_timeout <= cfg.no_reward_max

C10_Witness ==
    /\ pc = "episode_end"
    /\ ~done
    /\ ep >= 1
    /\ cfg.no_reward_timeout < cfg.no_reward_max
    /\ no_reward_timeout = cfg.no_reward_max
    /\ pos_steps # {}
    /\ t - last_reward > no_reward_timeout

====
